---- MODULE Spec2Model ----
(***************************************************************************)
(* A model of the Olio ray tracer core: Ray / HitRecord, the Surface       *)
(* variants (Sphere, Triangle, SurfaceList), Camera, Phong material,       *)
(* lights and RayTracer::RayColor.                                         *)
(*                                                                         *)
(* Arithmetic.  The program computes in Real (double).  The model computes *)
(* exactly: lengths and ray parameters are integers, unit normals are      *)
(* rational vectors (integer numerator vector over a positive integer      *)
(* denominator, reduced), colours are rational triples.  Sqrt and Div are  *)
(* the exact square root and quotient: they are undefined (TLC stops with  *)
(* an error) on an input whose result is not an integer, so every scene    *)
(* and ray the model draws is one on which each Real operation of the      *)
(* code is exact.  Rays run along the z axis in both senses; spheres have  *)
(* radius 5 so that chords are Pythagorean (3,4,5).                        *)
(***************************************************************************)
EXTENDS Integers, Sequences, FiniteSets, TLC

VARIABLES
    tri,      \* the mutable Triangle object T1: point0_, point1_, point2_, normal_
    rec,      \* the caller's HitRecord (reused across Hit calls)
    call,     \* the last Surface operation performed and what it returned
    cam,      \* the Camera object
    mat,      \* Surface::material_ of each Sphere and Triangle
    shade,    \* the last RayColor or Illuminate call and what it returned
    prog,     \* the progress bar of the RayTracer, its mutex and the threads using it
    render,   \* the RayTracer::Render call in progress and the image it fills
    parse     \* the RaytraParser::ParseFile call in progress, its locals and outputs

vars == <<tri, rec, call, cam, mat, shade, prog, render, parse>>

----------------------------------------------------------------------------
(* Vec3r arithmetic (Eigen) on integer vectors *)

Add(a, b) == <<a[1] + b[1], a[2] + b[2], a[3] + b[3]>>

Sub(a, b) == <<a[1] - b[1], a[2] - b[2], a[3] - b[3]>>

Scale(k, a) == <<k * a[1], k * a[2], k * a[3]>>

Neg(a) == Scale(-1, a)

Dot(a, b) == a[1] * b[1] + a[2] * b[2] + a[3] * b[3]

Cross(a, b) ==
    <<a[2] * b[3] - a[3] * b[2], a[3] * b[1] - a[1] * b[3], a[1] * b[2] - a[2] * b[1]>>

Abs(x) == IF x < 0 THEN -x ELSE x

Min2(a, b) == IF b < a THEN b ELSE a

\* sqrt on the integers where it is exact
Sqrt(n) == CHOOSE s \in 0..n : s * s = n

\* Real division where it is exact
Div(a, b) ==
    LET q == CHOOSE x \in {Abs(a) \div Abs(b)} : x * Abs(b) = Abs(a)
    IN  IF (a < 0) = (b < 0) THEN q ELSE -q

RECURSIVE Gcd(_, _)
Gcd(a, b) == IF b = 0 THEN a ELSE Gcd(b, a % b)

\* v.norm()
Norm(v) == Sqrt(Dot(v, v))

\* the rational vector v / d (d > 0), reduced
RVec(v, d) ==
    LET g == Gcd(Gcd(Gcd(Abs(v[1]), Abs(v[2])), Abs(v[3])), d)
    IN  [v |-> <<v[1] \div g, v[2] \div g, v[3] \div g>>, d |-> d \div g]

\* v / v.norm() and v.normalized(), v # 0
Normalized(v) == RVec(v, Norm(v))

RNeg(n) == [v |-> Neg(n.v), d |-> n.d]

ZeroVec == <<0, 0, 0>>

ZeroNormal == [v |-> ZeroVec, d |-> 1]

----------------------------------------------------------------------------
(* Constants of core/types.h *)

\* kEpsilon: the smallest positive length of the model
kEpsilon == 1

\* kInfinity: larger than every ray parameter of the model
kInfinity == 1000

NULL == "NULL"

----------------------------------------------------------------------------
(* Ray and HitRecord *)

\* Ray::Ray: origin_ = origin; dir_ = dir / dir.norm()
Ray(origin, dir) ==
    LET n == Norm(dir)
    IN  [origin |-> origin, dir |-> <<Div(dir[1], n), Div(dir[2], n), Div(dir[3], n)>>]

\* Ray::At
At(ray, t) == Add(ray.origin, Scale(t, ray.dir))

\* HitRecord::HitRecord(): created empty
EmptyRecord == [rayT |-> 0, point |-> ZeroVec, normal |-> ZeroNormal, surface |-> NULL]

\* HitRecord::SetNormal(ray, face_normal): the stored normal opposes the ray
SetNormal(r, ray, faceNormal) ==
    [r EXCEPT !.normal = IF Dot(faceNormal.v, ray.dir) > 0 THEN RNeg(faceNormal)
                         ELSE faceNormal]

\* HitRecord::HitRecord(ray, ray_t, point, face_normal)
HitRecordNew(ray, ray_t, point, face_normal) ==
    SetNormal([EmptyRecord EXCEPT !.rayT = ray_t, !.point = point], ray, face_normal)

----------------------------------------------------------------------------
(* The surfaces of the scene.  S1, S2 are spheres; T1 is the Triangle whose *)
(* points SetPoints changes (its state is the variable tri); T2 is a tilted *)
(* triangle (normal (3/5, 0, 4/5)); T3 lies in the plane y = 0, parallel to *)
(* the rays; LN and L0 are SurfaceList objects used as children.            *)

SphereIds == {"S1", "S2"}

TriangleIds == {"T1", "T2", "T3"}

ListIds == {"LN", "L0"}

PrimitiveIds == SphereIds \cup TriangleIds

Spheres ==
    [S1 |-> [center |-> <<0, 0, 0>>, radius |-> 5],
     S2 |-> [center |-> <<0, 0, 2>>, radius |-> 5]]

\* the point triples a Triangle is given
FlatCCW == <<<<-4, -4, 5>>, <<8, -4, 5>>, <<-4, 8, 5>>>>

FlatCW == <<<<-4, -4, 5>>, <<-4, 8, 5>>, <<8, -4, 5>>>>

LowCCW == <<<<-4, -4, -5>>, <<8, -4, -5>>, <<-4, 8, -5>>>>

Tilted == <<<<-4, -4, 11>>, <<8, -4, 2>>, <<-4, 8, 11>>>>

Vertical == <<<<-4, 0, 0>>, <<8, 0, 0>>, <<-4, 0, 12>>>>

PointTriples == {FlatCCW, FlatCW, LowCCW}

\* Triangle::ComputeNormal: normal_ = (p1 - p0) x (p2 - p0) / its norm
ComputeNormal(t) ==
    [t EXCEPT !.normal = Normalized(Cross(Sub(t.point1, t.point0), Sub(t.point2, t.point0)))]

\* Triangle::Triangle(point0, point1, point2): stores the points, then ComputeNormal()
TriangleNew(pts) ==
    ComputeNormal([point0 |-> pts[1], point1 |-> pts[2], point2 |-> pts[3],
                   normal |-> ZeroNormal])

\* Triangle::SetPoints: stores the three points
TriangleSetPoints(t, pts) ==
    [t EXCEPT !.point0 = pts[1], !.point1 = pts[2], !.point2 = pts[3]]

T2Object == TriangleNew(Tilted)

T3Object == TriangleNew(Vertical)

\* the Triangle object behind an id
TriangleOf(id) ==
    CASE id = "T1" -> tri
      [] id = "T2" -> T2Object
      [] id = "T3" -> T3Object

\* SurfaceList::surfaces_ of the SurfaceList objects used as children
ListChildren(id) ==
    CASE id = "LN" -> <<"S2", "T1">>
      [] id = "L0" -> <<>>

----------------------------------------------------------------------------
(* Surface::Hit.  Each Hit operator takes the caller's record r and       *)
(* returns [ret |-> the bool returned, rec |-> the record afterwards].     *)

\* Sphere::Hit as it would be if it fell back to the larger root when the
\* smaller one is out of range
SphereHitLargerRoot(id, ray, tmin, tmax, r) ==
    LET s == Spheres[id]
        D == ray.dir
        oc == Sub(ray.origin, s.center)
        discriminant == Dot(D, oc) * Dot(D, oc)
                        - Dot(D, D) * (Dot(oc, oc) - s.radius * s.radius)
    IN  IF discriminant < 0
        THEN [ret |-> FALSE, rec |-> r]
        ELSE LET tHit1 == Div(Dot(Neg(D), oc) - Sqrt(discriminant), Dot(D, D))
                 tHit2 == Div(Dot(Neg(D), oc) + Sqrt(discriminant), Dot(D, D))
                 wantedIntersect == IF tHit1 < tmin \/ tHit1 > tmax THEN tHit2 ELSE tHit1
             IN  IF wantedIntersect < tmin \/ wantedIntersect > tmax
                 THEN [ret |-> FALSE, rec |-> r]
                 ELSE LET hit_point == At(ray, wantedIntersect)
                          r1 == [r EXCEPT !.rayT = wantedIntersect, !.point = hit_point]
                          r2 == SetNormal(r1, ray, Normalized(Sub(hit_point, s.center)))
                      IN  [ret |-> TRUE, rec |-> [r2 EXCEPT !.surface = id]]

\* Sphere::Hit as it would be if it stored the root in the record before
\* testing it against the range
SphereHitSetsRayTFirst(id, ray, tmin, tmax, r) ==
    LET s == Spheres[id]
        D == ray.dir
        oc == Sub(ray.origin, s.center)
        discriminant == Dot(D, oc) * Dot(D, oc)
                        - Dot(D, D) * (Dot(oc, oc) - s.radius * s.radius)
    IN  IF discriminant < 0
        THEN [ret |-> FALSE, rec |-> r]
        ELSE LET tHit1 == Div(Dot(Neg(D), oc) - Sqrt(discriminant), Dot(D, D))
                 tHit2 == Div(Dot(Neg(D), oc) + Sqrt(discriminant), Dot(D, D))
                 wantedIntersect == Min2(tHit1, tHit2)
                 r0 == [r EXCEPT !.rayT = wantedIntersect]
             IN  IF wantedIntersect < tmin \/ wantedIntersect > tmax
                 THEN [ret |-> FALSE, rec |-> r0]
                 ELSE LET hit_point == At(ray, wantedIntersect)
                          r1 == [r0 EXCEPT !.point = hit_point]
                          r2 == SetNormal(r1, ray, Normalized(Sub(hit_point, s.center)))
                      IN  [ret |-> TRUE, rec |-> [r2 EXCEPT !.surface = id]]

\* Sphere::Hit
SphereHit(id, ray, tmin, tmax, r) ==
    LET s == Spheres[id]
        D == ray.dir
        oc == Sub(ray.origin, s.center)
        discriminant == Dot(D, oc) * Dot(D, oc)
                        - Dot(D, D) * (Dot(oc, oc) - s.radius * s.radius)
    IN  IF discriminant < 0
        THEN [ret |-> FALSE, rec |-> r]
        ELSE LET tHit1 == Div(Dot(Neg(D), oc) - Sqrt(discriminant), Dot(D, D))
                 tHit2 == Div(Dot(Neg(D), oc) + Sqrt(discriminant), Dot(D, D))
                 wantedIntersect == Min2(tHit1, tHit2)
             IN  IF wantedIntersect < tmin \/ wantedIntersect > tmax
                 THEN [ret |-> FALSE, rec |-> r]
                 ELSE LET hit_point == At(ray, wantedIntersect)
                          r1 == [r EXCEPT !.rayT = wantedIntersect, !.point = hit_point]
                          r2 == SetNormal(r1, ray, Normalized(Sub(hit_point, s.center)))
                      IN  [ret |-> TRUE, rec |-> [r2 EXCEPT !.surface = id]]

\* the determinant of the 3x3 matrix with columns a, b, c
Det3(a, b, c) == Dot(a, Cross(b, c))

\* Triangle::RayTriangleHit: solves [u v -D] x = O - p0 (Cramer's rule for the
\* QR solve); x[2] is the ray parameter, (x[0], x[1]) the uv coordinates, kept
\* as numerators over the common denominator det
RayTriangleHit(p0, p1, p2, ray, tmin, tmax) ==
    LET u == Sub(p1, p0)
        v == Sub(p2, p0)
        mD == Neg(ray.dir)
        b == Sub(ray.origin, p0)
        det == Det3(u, v, mD)
        x2 == Div(Det3(u, v, b), det)
    IN  IF tmin > x2 \/ tmax < x2
        THEN [ret |-> FALSE, ray_t |-> 0, uv |-> <<0, 0, 1>>]
        ELSE [ret |-> TRUE, ray_t |-> x2,
              uv |-> <<Det3(b, v, mD), Det3(u, b, mD), det>>]

\* Triangle::Hit
TriangleHit(id, ray, tmin, tmax, r) ==
    LET t == TriangleOf(id)
    IN  IF Dot(t.normal.v, ray.dir) = 0
        THEN [ret |-> FALSE, rec |-> r]
        ELSE LET h == RayTriangleHit(t.point0, t.point1, t.point2, ray, tmin, tmax)
             IN  IF ~h.ret
                 THEN [ret |-> FALSE, rec |-> r]
                 ELSE LET x == Add(Scale(h.ray_t, ray.dir), ray.origin)
                          e0 == Dot(Cross(Sub(t.point1, t.point0), Sub(x, t.point0)), t.normal.v)
                          e1 == Dot(Cross(Sub(t.point2, t.point1), Sub(x, t.point1)), t.normal.v)
                          e2 == Dot(Cross(Sub(t.point0, t.point2), Sub(x, t.point2)), t.normal.v)
                      IN  IF e0 < 0 \/ e1 < 0 \/ e2 < 0
                          THEN [ret |-> FALSE, rec |-> r]
                          ELSE LET r1 == [r EXCEPT !.rayT = h.ray_t,
                                                   !.point = At(ray, h.ray_t)]
                                   r2 == SetNormal(r1, ray, t.normal)
                               IN  [ret |-> TRUE, rec |-> [r2 EXCEPT !.surface = id]]

\* SurfaceList::Hit, lines 35-40: the child's record replaces the caller's
\* when its rayT is strictly smaller
KeepNearest(ray, hit_record, bestRecord) ==
    IF bestRecord.rayT < hit_record.rayT
    THEN LET r1 == [hit_record EXCEPT !.rayT = bestRecord.rayT,
                                      !.point = bestRecord.point]
             r2 == SetNormal(r1, ray, bestRecord.normal)
         IN  [r2 EXCEPT !.surface = bestRecord.surface]
    ELSE hit_record

RECURSIVE SurfaceHit(_, _, _, _, _)
RECURSIVE ListLoop(_, _, _, _, _, _, _, _)

\* SurfaceList::Hit, the body of the loop for child i, h being what the
\* child's Hit returned and made of bestRecord
ListStep(children, i, ray, tmin, tmax, hitAny, hit_record, h) ==
    IF h.ret
    THEN ListLoop(children, i + 1, ray, tmin, tmax, TRUE,
                  KeepNearest(ray, hit_record, h.rec), h.rec)
    ELSE ListLoop(children, i + 1, ray, tmin, tmax, hitAny, hit_record, h.rec)

\* SurfaceList::Hit, the loop over surfaces_ from child i on
ListLoop(children, i, ray, tmin, tmax, hitAny, hit_record, bestRecord) ==
    IF i > Len(children)
    THEN [ret |-> hitAny, rec |-> hit_record]
    ELSE ListStep(children, i, ray, tmin, tmax, hitAny, hit_record,
                  SurfaceHit(children[i], ray, tmin, tmax, bestRecord))

\* SurfaceList::Hit on a list with the given children
SurfaceListHit(children, ray, tmin, tmax, r) ==
    ListLoop(children, 1, ray, tmin, tmax, FALSE, [r EXCEPT !.rayT = tmax], EmptyRecord)

\* the virtual call surface->Hit(...)
SurfaceHit(id, ray, tmin, tmax, r) ==
    CASE id \in SphereIds -> SphereHit(id, ray, tmin, tmax, r)
      [] id \in TriangleIds -> TriangleHit(id, ray, tmin, tmax, r)
      [] id \in ListIds -> SurfaceListHit(ListChildren(id), ray, tmin, tmax, r)

----------------------------------------------------------------------------
(* The calls the model makes *)

\* the longest list of children of a SurfaceList
MaxChildren == 2

ChildIds == {"S1", "S2", "T1", "T2", "LN"}

RECURSIVE SeqsUpTo(_, _)
SeqsUpTo(S, n) ==
    IF n = 0 THEN {<<>>}
    ELSE LET shorter == SeqsUpTo(S, n - 1)
         IN  shorter \cup {Append(q, x) : q \in shorter, x \in S}

ChildLists == SeqsUpTo(ChildIds, MaxChildren)

\* the (origin, direction) pairs a Ray is constructed with; not every
\* direction is of unit length
RayInputs ==
    {<<<<0, 0, 10>>, <<0, 0, -1>>>>, <<<<0, 0, 0>>, <<0, 0, -2>>>>,
     <<<<0, 0, -10>>, <<0, 0, 1>>>>, <<<<4, 0, 10>>, <<0, 0, -1>>>>,
     <<<<0, 3, 10>>, <<0, 0, -1>>>>, <<<<4, 3, 10>>, <<0, 0, -2>>>>,
     <<<<8, 0, 10>>, <<0, 0, -1>>>>}

Rays == {Ray(i[1], i[2]) : i \in RayInputs}

\* the [tmin, tmax] ranges of a Hit call
Ranges == {<<0, kInfinity>>, <<kEpsilon, kInfinity>>, <<0, 5>>, <<6, kInfinity>>}

\* the records a caller constructs with HitRecord(ray, ray_t, point, face_normal)
UnitZ == [v |-> <<0, 0, 1>>, d |-> 1]

DownRay == Ray(<<0, 0, 10>>, <<0, 0, -1>>)

UpRay == Ray(<<0, 0, -10>>, <<0, 0, 1>>)

CallerRecords ==
    {HitRecordNew(DownRay, 3, At(DownRay, 3), UnitZ),
     HitRecordNew(UpRay, 7, At(UpRay, 7), UnitZ)}

NoRay == [origin |-> ZeroVec, dir |-> ZeroVec]

\* used: rec has been passed to a Hit call since it was constructed
NoCall ==
    [op |-> "none", target |-> NULL, children |-> <<>>, ray |-> NoRay,
     tmin |-> 0, tmax |-> 0, ret |-> FALSE, used |-> FALSE, before |-> EmptyRecord]

NoCamera == [constructed |-> FALSE]

NoShade == [op |-> "none"]

\* no RenderProgressStart yet
NoProgress == [started |-> FALSE]

\* no Render call yet
NoRender == [pc |-> "none"]

\* no ParseFile call yet
NoParse == [pc |-> "none"]

NoMaterials == [id \in PrimitiveIds |-> NULL]

\* a caller constructs a HitRecord, empty or from a ray, parameter, point and normal
NewHitRecord(r) ==
    /\ rec' = r
    /\ call' = [NoCall EXCEPT !.op = "HitRecord", !.before = r]
    /\ UNCHANGED <<tri, cam, mat, shade, prog, render, parse>>

\* T1.SetPoints(point0, point1, point2)
SetPoints(pts) ==
    /\ tri' = TriangleSetPoints(tri, pts)
    /\ call' = [NoCall EXCEPT !.op = "SetPoints", !.target = "T1", !.used = call.used,
                              !.before = call.before]
    /\ UNCHANGED <<rec, cam, mat, shade, prog, render, parse>>

\* what a Hit call leaves in call; before is the record as the caller passed it.
\* Each Hit call of the model is given a record the caller has just constructed.
HitCall(target, children, ray, tmin, tmax, ret) ==
    [op |-> "Hit", target |-> target, children |-> children, ray |-> ray,
     tmin |-> tmin, tmax |-> tmax, ret |-> ret, used |-> TRUE, before |-> rec]

\* surface.Hit(ray, tmin, tmax, rec) on a Sphere or a Triangle
HitPrimitive(id, ray, tmin, tmax) ==
    LET h == SurfaceHit(id, ray, tmin, tmax, rec)
    IN  /\ ~call.used
        /\ rec' = h.rec
        /\ call' = HitCall(id, <<>>, ray, tmin, tmax, h.ret)
        /\ UNCHANGED <<tri, cam, mat, shade, prog, render, parse>>

\* SurfaceList(children).Hit(ray, tmin, tmax, rec)
HitList(children, ray, tmin, tmax) ==
    LET h == SurfaceListHit(children, ray, tmin, tmax, rec)
    IN  /\ ~call.used
        /\ rec' = h.rec
        /\ call' = HitCall("list", children, ray, tmin, tmax, h.ret)
        /\ UNCHANGED <<tri, cam, mat, shade, prog, render, parse>>

Init ==
    /\ tri \in {TriangleNew(pts) : pts \in PointTriples}
    /\ rec = EmptyRecord
    /\ call = NoCall
    /\ cam = NoCamera
    /\ mat = NoMaterials
    /\ shade = NoShade
    /\ prog = NoProgress
    /\ render = NoRender
    /\ parse = NoParse

Next ==
    \/ \E r \in {EmptyRecord} \cup CallerRecords : NewHitRecord(r)
    \/ \E pts \in PointTriples : SetPoints(pts)
    \/ \E id \in PrimitiveIds, ray \in Rays, rg \in Ranges :
          HitPrimitive(id, ray, rg[1], rg[2])
    \/ \E children \in ChildLists, ray \in Rays, rg \in Ranges :
          HitList(children, ray, rg[1], rg[2])

Spec == Init /\ [][Next]_vars

----------------------------------------------------------------------------
(* Properties of the Surface variants, checked under Spec *)

IsHit == call.op = "Hit"

IsListHit == IsHit /\ call.target = "list"

IsSphereHit == IsHit /\ call.target \in SphereIds

\* what child i of the list last called reports for the call's ray and range
ChildHit(i) ==
    SurfaceHit(call.children[i], call.ray, call.tmin, call.tmax, EmptyRecord)

\* the children whose hit has the smallest rayT among all children's hits
NearestChildren ==
    {i \in 1..Len(call.children) :
        /\ ChildHit(i).ret
        /\ \A j \in 1..Len(call.children) :
              ChildHit(j).ret => ChildHit(i).rec.rayT <= ChildHit(j).rec.rayT}

\* C1: SurfaceList.Hit returns true iff at least one child reports a hit in
\* [tmin, tmax], and when it returns true the caller's record holds the rayT,
\* point, normal and surface of a child hit with the smallest rayT among all
\* children's hits, also when that smallest rayT equals tmax.
C1_ListReturnsNearestChildHit ==
    IsListHit =>
        /\ call.ret = (\E i \in 1..Len(call.children) : ChildHit(i).ret)
        /\ call.ret => \E i \in NearestChildren : rec = ChildHit(i).rec

\* the parameters t at which the ray of the last call meets the sphere called:
\* |O + tD - C|^2 = r^2, found by search
SphereRoots ==
    LET s == Spheres[call.target]
        oc == Sub(call.ray.origin, s.center)
        m == Dot(oc, oc) + s.radius * s.radius
    IN  {t \in -m..m :
            LET p == Sub(At(call.ray, t), s.center)
            IN  Dot(p, p) = s.radius * s.radius}

SetMin(S) == CHOOSE x \in S : \A y \in S : x <= y

SetMax(S) == CHOOSE x \in S : \A y \in S : y <= x

\* C2: Sphere.Hit reports a hit exactly when the ray meets the sphere and the
\* smaller of the two parameters lies in [tmin, tmax], and then rayT is that
\* smaller parameter; it never falls back to the larger one.
C2_SphereTakesSmallerRootOnly ==
    IsSphereHit =>
        /\ call.ret = (/\ SphereRoots # {}
                       /\ call.tmin <= SetMin(SphereRoots)
                       /\ SetMin(SphereRoots) <= call.tmax)
        /\ call.ret => rec.rayT = SetMin(SphereRoots)

\* C2, the case it is about: the origin is strictly inside the sphere, the
\* smaller root is below tmin, the larger root is in range, and Hit missed
C2_InsideOriginMisses ==
    /\ IsSphereHit
    /\ LET s == Spheres[call.target]
           oc == Sub(call.ray.origin, s.center)
       IN  Dot(oc, oc) < s.radius * s.radius
    /\ SphereRoots # {}
    /\ SetMin(SphereRoots) < call.tmin
    /\ call.tmin <= SetMax(SphereRoots)
    /\ SetMax(SphereRoots) <= call.tmax
    /\ ~call.ret

\* C3: the stored normal of a Triangle is the normalized cross product
\* (p1 - p0) x (p2 - p0) of its current points, after construction and after
\* every SetPoints.
C3_TriangleNormalFollowsPoints ==
    tri.normal = Normalized(Cross(Sub(tri.point1, tri.point0), Sub(tri.point2, tri.point0)))

\* C5: after every successful Hit of a Sphere, a Triangle or a SurfaceList the
\* normal in the hit record opposes the ray: normal . ray.direction <= 0.
C5_NormalOpposesRay ==
    (IsHit /\ call.ret) => Dot(rec.normal.v, call.ray.dir) <= 0

\* the primitives (Sphere, Triangle) under the surface last called
RECURSIVE PrimitivesOf(_)
PrimitivesOf(children) ==
    IF children = <<>> THEN {}
    ELSE LET c == Head(children)
         IN  (IF c \in ListIds THEN PrimitivesOf(ListChildren(c)) ELSE {c})
             \cup PrimitivesOf(Tail(children))

CalledPrimitives ==
    IF call.target = "list" THEN PrimitivesOf(call.children) ELSE {call.target}

\* C9: after every successful Hit with range [tmin, tmax], tmin <= rayT <= tmax,
\* point = ray.origin + rayT * ray.direction, and the surface reference is the
\* primitive that was hit, never absent.
C9_HitRecordDescribesTheHit ==
    (IsHit /\ call.ret) =>
        /\ call.tmin <= rec.rayT
        /\ rec.rayT <= call.tmax
        /\ rec.point = At(call.ray, rec.rayT)
        /\ rec.surface # NULL
        /\ rec.surface \in CalledPrimitives
        /\ LET h == SurfaceHit(rec.surface, call.ray, call.tmin, call.tmax, EmptyRecord)
           IN  h.ret /\ h.rec.rayT = rec.rayT

Reverse(q) == [i \in 1..Len(q) |-> q[Len(q) + 1 - i]]

\* the hits of the children of the last list call have pairwise distinct rayT
DistinctChildHits ==
    \A i, j \in 1..Len(call.children) :
        (i # j /\ ChildHit(i).ret /\ ChildHit(j).ret)
            => ChildHit(i).rec.rayT # ChildHit(j).rec.rayT

\* C10: when several children report hits with equal rayT the record returned
\* is that of the child that comes first in list order; reordering children
\* whose hits have distinct rayT does not change the result.
C10_TiesGoToTheFirstChild ==
    IsListHit =>
        /\ (call.ret /\ Cardinality(NearestChildren) >= 2)
              => rec = ChildHit(SetMin(NearestChildren)).rec
        /\ DistinctChildHits =>
              SurfaceListHit(Reverse(call.children), call.ray, call.tmin, call.tmax,
                             call.before)
                  = [ret |-> call.ret, rec |-> rec]

----------------------------------------------------------------------------
(* Camera.  The basis vectors u, v, w (columns 0..2 of camera_xform_) are   *)
(* integer unit vectors; fovy is in whole degrees; tan is taken in         *)
(* thousandths, and horizontal_, vertical_ and lower_left_corner_ are kept *)
(* in thousandths of a length unit.                                        *)

\* v / v.norm() for a vector whose quotient is an integer vector
UnitOf(v) == LET n == Norm(v) IN <<Div(v[1], n), Div(v[2], n), Div(v[3], n)>>

\* 1000 * tan(fovy * kPi / 360), rounded, for the angles the model uses
TanHalfMilli(fovy) ==
    CASE fovy = 60 -> 577
      [] fovy = 90 -> 1000
      [] fovy = 120 -> 1732

\* Camera::UpdateViewport
UpdateViewport(c) ==
    LET vertical == Scale(2 * TanHalfMilli(c.fovy), c.v)
        horizontal == Scale(c.aspect * 2 * TanHalfMilli(c.fovy), c.u)
        sum == Add(horizontal, vertical)
        half == <<Div(sum[1], 2), Div(sum[2], 2), Div(sum[3], 2)>>
    IN  [c EXCEPT !.vertical = vertical, !.horizontal = horizontal,
                  !.lower_left_corner = Sub(Sub(Scale(1000, c.eye), Scale(1000, c.w)), half)]

\* Camera::LookAt as it would be if it ignored update_viewport = true
CameraLookAtNoUpdate(c, eye, target, up, update_viewport) ==
    LET w == UnitOf(Sub(eye, target))
        u == UnitOf(Cross(up, w))
        v == UnitOf(Cross(w, u))
    IN  [c EXCEPT !.eye = eye, !.target = target, !.up = up,
                  !.u = u, !.v = v, !.w = w,
                  !.op = "LookAt", !.update_viewport = update_viewport]

\* Camera::LookAt
CameraLookAt(c, eye, target, up, update_viewport) ==
    LET w == UnitOf(Sub(eye, target))
        u == UnitOf(Cross(up, w))
        v == UnitOf(Cross(w, u))
        c1 == [c EXCEPT !.eye = eye, !.target = target, !.up = up,
                        !.u = u, !.v = v, !.w = w,
                        !.op = "LookAt", !.update_viewport = update_viewport]
    IN  IF update_viewport THEN UpdateViewport(c1) ELSE c1

\* Camera::SetFovy
CameraSetFovy(c, fovy, update_viewport) ==
    LET c1 == [c EXCEPT !.fovy = fovy, !.op = "SetFovy",
                        !.update_viewport = update_viewport]
    IN  IF update_viewport THEN UpdateViewport(c1) ELSE c1

\* Camera::SetAspect
CameraSetAspect(c, aspect, update_viewport) ==
    LET c1 == [c EXCEPT !.aspect = aspect, !.op = "SetAspect",
                        !.update_viewport = update_viewport]
    IN  IF update_viewport THEN UpdateViewport(c1) ELSE c1

\* Camera::Camera(eye, target, up, fovy, aspect): sets fovy_ and aspect_, then
\* LookAt(eye, target, up, true)
CameraNew(eye, target, up, fovy, aspect) ==
    LET c0 == [constructed |-> TRUE, eye |-> ZeroVec, target |-> ZeroVec, up |-> ZeroVec,
               fovy |-> fovy, aspect |-> aspect,
               u |-> ZeroVec, v |-> ZeroVec, w |-> ZeroVec,
               vertical |-> ZeroVec, horizontal |-> ZeroVec,
               lower_left_corner |-> ZeroVec, op |-> "Camera", update_viewport |-> TRUE]
    IN  [CameraLookAt(c0, eye, target, up, TRUE) EXCEPT !.op = "Camera"]

IsSquare(n) == \E s \in 0..n : s * s = n

Eyes == {<<0, 0, 1>>, <<0, 0, 3>>, <<2, 0, 0>>}

Targets == {<<0, 0, 0>>, <<0, 0, -1>>}

Ups == {<<0, 1, 0>>, <<0, 2, 0>>, <<0, 0, 1>>}

\* the LookAt parameters of the model: eye # target, up not parallel to the
\* view direction (both are the caller's duty), and norms that are integers
LookAts ==
    {l \in Eyes \X Targets \X Ups :
        LET w == Sub(l[1], l[2])
        IN  /\ w # ZeroVec
            /\ IsSquare(Dot(w, w))
            /\ Cross(l[3], UnitOf(w)) # ZeroVec
            /\ IsSquare(Dot(Cross(l[3], UnitOf(w)), Cross(l[3], UnitOf(w))))}

Fovys == {60, 90, 120}

Aspects == {1, 2}

Construct ==
    /\ ~cam.constructed
    /\ \E l \in LookAts, fovy \in Fovys, aspect \in Aspects :
          cam' = CameraNew(l[1], l[2], l[3], fovy, aspect)
    /\ UNCHANGED <<tri, rec, call, mat, shade, prog, render, parse>>

LookAt ==
    /\ cam.constructed
    /\ \E l \in LookAts, update_viewport \in BOOLEAN :
          cam' = CameraLookAt(cam, l[1], l[2], l[3], update_viewport)
    /\ UNCHANGED <<tri, rec, call, mat, shade, prog, render, parse>>

SetFovy ==
    /\ cam.constructed
    /\ \E fovy \in Fovys, update_viewport \in BOOLEAN :
          cam' = CameraSetFovy(cam, fovy, update_viewport)
    /\ UNCHANGED <<tri, rec, call, mat, shade, prog, render, parse>>

SetAspect ==
    /\ cam.constructed
    /\ \E aspect \in Aspects, update_viewport \in BOOLEAN :
          cam' = CameraSetAspect(cam, aspect, update_viewport)
    /\ UNCHANGED <<tri, rec, call, mat, shade, prog, render, parse>>

InitCamera ==
    /\ tri = TriangleNew(FlatCCW)
    /\ rec = EmptyRecord
    /\ call = NoCall
    /\ cam = NoCamera
    /\ mat = NoMaterials
    /\ shade = NoShade
    /\ prog = NoProgress
    /\ render = NoRender
    /\ parse = NoParse

NextCamera == Construct \/ LookAt \/ SetFovy \/ SetAspect

SpecCamera == InitCamera /\ [][NextCamera]_vars

\* the viewport of cam is what UpdateViewport computes from the current eye,
\* basis, fovy and aspect
ViewportFresh ==
    /\ cam.vertical = Scale(2 * TanHalfMilli(cam.fovy), cam.v)
    /\ cam.horizontal = Scale(cam.aspect * 2 * TanHalfMilli(cam.fovy), cam.u)
    /\ Scale(2, cam.lower_left_corner)
          = Sub(Sub(Scale(2000, cam.eye), Scale(2000, cam.w)),
                Add(cam.horizontal, cam.vertical))

\* C4 as claimed: after construction and after any sequence of LookAt, SetFovy
\* and SetAspect calls, whatever their update_viewport argument, the viewport
\* equals what UpdateViewport would compute from the current parameters.
C4_ViewportNeverStale == cam.constructed => ViewportFresh

\* C4 as amended: after the constructor and after every LookAt, SetFovy or
\* SetAspect call whose update_viewport argument is true, the viewport equals
\* what UpdateViewport would compute from the current eye, basis, fovy and
\* aspect.
C4_ViewportFreshAfterUpdatingCall ==
    (cam.constructed /\ cam.update_viewport) => ViewportFresh

\* C4, its case: a LookAt, SetFovy or SetAspect call with update_viewport =
\* true has acted on a camera whose fovy and aspect are no longer 90 and 1
C4_UpdatingCallSeen ==
    /\ cam.constructed
    /\ cam.op \in {"LookAt", "SetFovy", "SetAspect"}
    /\ cam.update_viewport
    /\ cam.fovy # 90
    /\ cam.aspect # 1
    /\ ViewportFresh

----------------------------------------------------------------------------
(* Colours and the other Real values of shading are exact rationals         *)
(* [n |-> numerator, d |-> denominator > 0], reduced.                       *)

Q(n, d) ==
    LET g == Gcd(Abs(n), Abs(d))
    IN  IF d < 0 THEN [n |-> (-n) \div g, d |-> (-d) \div g]
        ELSE [n |-> n \div g, d |-> d \div g]

QInt(k) == [n |-> k, d |-> 1]

QAdd(a, b) == Q(a.n * b.d + b.n * a.d, a.d * b.d)

QMul(a, b) == Q(a.n * b.n, a.d * b.d)

\* std::max(0.0, a)
QMax0(a) == IF a.n < 0 THEN QInt(0) ELSE a

\* std::pow(a, k) for a >= 0 and a whole exponent k >= 0; pow(0, 0) = 1
RECURSIVE QPow(_, _)
QPow(a, k) == IF k = 0 THEN QInt(1) ELSE QMul(a, QPow(a, k - 1))

Colour(r, g, b) == <<QInt(r), QInt(g), QInt(b)>>

Black == Colour(0, 0, 0)

\* the colour RayColor gives a hit whose material it cannot shade
DiagnosticColour == Colour(1, 0, 0)

ColourAdd(a, b) == <<QAdd(a[1], b[1]), QAdd(a[2], b[2]), QAdd(a[3], b[3])>>

ColourScale(k, a) == <<QMul(k, a[1]), QMul(k, a[2]), QMul(k, a[3])>>

\* the element-wise product
ColourMul(a, b) == <<QMul(a[1], b[1]), QMul(a[2], b[2]), QMul(a[3], b[3])>>

\* a . b for rational vectors
RDot(a, b) == Q(Dot(a.v, b.v), a.d * b.d)

\* (a + b).normalized() for an integer vector a and a rational vector b; Eigen
\* returns a zero vector unchanged
NormalizedSum(a, b) ==
    LET sum == Add(Scale(b.d, a), b.v)
    IN  IF sum = ZeroVec THEN ZeroNormal ELSE Normalized(sum)

----------------------------------------------------------------------------
(* Materials *)

\* PhongMaterial::PhongMaterial(ambient, diffuse, specular, shininess, mirror,
\* name): name_ = name.size() ? name : "PhongMaterial"
PhongMaterialNew(ambient, diffuse, specular, shininess, mirror, name) ==
    [class |-> "PhongMaterial",
     name |-> IF name # "" THEN name ELSE "PhongMaterial",
     ambient |-> ambient, diffuse |-> diffuse, specular |-> specular,
     shininess |-> shininess, mirror |-> mirror]

\* the Material objects of the model: two PhongMaterial objects that differ in
\* the name they were constructed with, and a Material that is no PhongMaterial
Materials ==
    [Phong |-> PhongMaterialNew(Colour(1, 2, 0), Colour(1, 1, 1), Colour(1, 0, 1), 2,
                                Black, ""),
     Gold |-> PhongMaterialNew(Colour(1, 2, 0), Colour(1, 1, 1), Colour(1, 0, 1), 2,
                               Black, "Gold"),
     Plain |-> [class |-> "Material", name |-> "Material"]]

MaterialIds == {"Phong", "Gold", "Plain", NULL}

\* std::dynamic_pointer_cast<PhongMaterial>(material) is not null
IsPhongMaterial(m) == m # NULL /\ Materials[m].class = "PhongMaterial"

\* PhongMaterial::Evaluate
Evaluate(m, hit_record, light_vec, view_vec) ==
    LET biSect == NormalizedSum(view_vec, light_vec)
        p == QPow(QMax0(RDot(hit_record.normal, biSect)), Materials[m].shininess)
    IN  ColourAdd(Materials[m].diffuse, ColourScale(p, Materials[m].specular))

----------------------------------------------------------------------------
(* Lights.  Illuminate returns [colour, fault]; fault says that a null     *)
(* pointer was dereferenced.                                               *)

Lights ==
    [A |-> [class |-> "AmbientLight", ambient |-> Colour(2, 2, 2)],
     P1 |-> [class |-> "PointLight", position |-> <<0, 0, 20>>,
             intensity |-> Colour(100, 100, 100)],
     P2 |-> [class |-> "PointLight", position |-> <<0, 0, -20>>,
             intensity |-> Colour(50, 0, 25)]]

LightIds == {"A", "P1", "P2"}

\* surface->GetMaterial() of a surface that is not null
GetMaterial(surface) == mat[surface]

\* PointLight::Illuminate
PointLightIlluminate(light, hit_record, view_vec) ==
    LET toLight == Sub(Lights[light].position, hit_record.point)
        distanceSquared == Dot(toLight, toLight)
        light_vec == Normalized(toLight)
        irradiance == ColourScale(
            QMul(QMax0(RDot(hit_record.normal, light_vec)), Q(1, distanceSquared)),
            Lights[light].intensity)
        surface == hit_record.surface
    IN  IF surface = NULL
        THEN [colour |-> Black, fault |-> FALSE]
        ELSE LET material == GetMaterial(surface)
             IN  IF ~IsPhongMaterial(material) \/ Materials[material].name # "PhongMaterial"
                 THEN [colour |-> Black, fault |-> FALSE]
                 ELSE [colour |-> ColourMul(irradiance,
                                            Evaluate(material, hit_record, light_vec, view_vec)),
                       fault |-> FALSE]

\* AmbientLight::Illuminate as it would be without its test of the surface:
\* surface->GetMaterial() on a null surface
AmbientLightIlluminateUnchecked(light, hit_record, view_vec) ==
    LET surface == hit_record.surface
    IN  IF surface = NULL
        THEN [colour |-> Black, fault |-> TRUE]
        ELSE LET material == GetMaterial(surface)
             IN  IF ~IsPhongMaterial(material) \/ Materials[material].name # "PhongMaterial"
                 THEN [colour |-> Black, fault |-> FALSE]
                 ELSE [colour |-> ColourMul(Lights[light].ambient, Materials[material].ambient),
                       fault |-> FALSE]

\* AmbientLight::Illuminate
AmbientLightIlluminate(light, hit_record, view_vec) ==
    LET surface == hit_record.surface
    IN  IF surface = NULL
        THEN [colour |-> Black, fault |-> FALSE]
        ELSE LET material == GetMaterial(surface)
             IN  IF ~IsPhongMaterial(material) \/ Materials[material].name # "PhongMaterial"
                 THEN [colour |-> Black, fault |-> FALSE]
                 ELSE [colour |-> ColourMul(Lights[light].ambient, Materials[material].ambient),
                       fault |-> FALSE]

\* the virtual call light->Illuminate(hit_record, view_vec)
Illuminate(light, hit_record, view_vec) ==
    CASE Lights[light].class = "PointLight" -> PointLightIlluminate(light, hit_record, view_vec)
      [] Lights[light].class = "AmbientLight" ->
            AmbientLightIlluminate(light, hit_record, view_vec)

----------------------------------------------------------------------------
(* RayTracer::RayColor.  The scene is a SurfaceList, given by its children. *)
(* The result is [ret, colour, evaluated, fault, rec]: the bool returned,   *)
(* ray_color, the number of Illuminate calls made, whether a null pointer   *)
(* was dereferenced, and the local hit_record.                              *)

\* RayColor, line 76: ray_color += l, l being what Illuminate returned
AddLight(acc, l) ==
    [acc EXCEPT !.colour = ColourAdd(@, l.colour),
                !.evaluated = @ + 1,
                !.fault = @ \/ l.fault]

RECURSIVE AddLights(_, _, _, _, _)
\* RayColor, lines 74-77: the loop over the lights from light i on
AddLights(lights, i, hit_record, view_vec, acc) ==
    IF i > Len(lights) THEN acc
    ELSE AddLights(lights, i + 1, hit_record, view_vec,
                   AddLight(acc, Illuminate(lights[i], hit_record, view_vec)))

\* what RayColor does once the scene is hit
ShadeHit(ray, lights, hit_record) ==
    IF hit_record.surface = NULL
    THEN [ret |-> TRUE, colour |-> Black, evaluated |-> 0, fault |-> TRUE,
          rec |-> hit_record]
    ELSE LET material == GetMaterial(hit_record.surface)
         IN  IF IsPhongMaterial(material) /\ Materials[material].name = "PhongMaterial"
             THEN AddLights(lights, 1, hit_record, Neg(ray.dir),
                            [ret |-> TRUE, colour |-> Black, evaluated |-> 0,
                             fault |-> FALSE, rec |-> hit_record])
             ELSE [ret |-> TRUE, colour |-> DiagnosticColour, evaluated |-> 0,
                   fault |-> FALSE, rec |-> hit_record]

\* RayColor, lines 70-83: what it does with the result h of the scene's Hit
Shade(ray, lights, h) ==
    IF ~h.ret
    THEN [ret |-> FALSE, colour |-> Black, evaluated |-> 0, fault |-> FALSE,
          rec |-> h.rec]
    ELSE ShadeHit(ray, lights, h.rec)

\* RayColor as it would be if it tested the scene from 0 instead of kEpsilon
RayColorFromZero(ray, scene, lights) ==
    Shade(ray, lights, SurfaceListHit(scene, ray, 0, kInfinity, EmptyRecord))

\* RayTracer::RayColor
RayColor(ray, scene, lights) ==
    Shade(ray, lights, SurfaceListHit(scene, ray, kEpsilon, kInfinity, EmptyRecord))

\* the longest list of lights
MaxLights == 2

LightLists == SeqsUpTo(LightIds, MaxLights)

\* the surfaces that carry a material in the scenes that are shaded
ShadedIds == {"S1", "T1", "T2"}

ShadeScenes ==
    {<<>>, <<"S1">>, <<"T1">>, <<"T2">>, <<"S1", "T1">>, <<"T2", "S1">>, <<"S1", "T2">>}

\* the rays that are shaded: along the z axis, on which the point lights lie,
\* from outside the scene, from inside the spheres, from a point of S1 and T1,
\* and one ray that passes the scene by
ShadeRays ==
    {Ray(<<0, 0, 10>>, <<0, 0, -1>>), Ray(<<0, 0, -10>>, <<0, 0, 2>>),
     Ray(<<0, 0, 0>>, <<0, 0, -1>>), Ray(<<0, 0, 5>>, <<0, 0, -1>>),
     Ray(<<8, 0, 10>>, <<0, 0, -1>>)}

\* the hit records Illuminate is called with: an empty one, and those of the
\* hits of the shaded surfaces
ShadeRecords ==
    {EmptyRecord} \cup
    {SurfaceHit(id, ray, kEpsilon, kInfinity, EmptyRecord).rec :
        id \in ShadedIds, ray \in ShadeRays}

\* the call RayColor(ray, scene, lights, ray_color) and its result c
RayColorCall(ray, scene, lights, c) ==
    [op |-> "RayColor", ray |-> ray, scene |-> scene, lights |-> lights,
     ret |-> c.ret, colour |-> c.colour, evaluated |-> c.evaluated,
     fault |-> c.fault, rec |-> c.rec]

\* the call light->Illuminate(hit_record, view_vec) and its result l
IlluminateCall(light, hit_record, view_vec, l) ==
    [op |-> "Illuminate", light |-> light, rec |-> hit_record,
     view_vec |-> view_vec, colour |-> l.colour, fault |-> l.fault]

\* the Triangle T1 as Triangle::Hit, reached from RayColor, took the face
\* normal for the record from it, had it stored the oriented normal back
TriangleAfterCallOriented(t) == [t EXCEPT !.normal = RNeg(@)]

\* the Triangle T1 after a Hit, an Illuminate or a RayColor call: the calls
\* read the members of the surfaces and assign none
TriangleAfterCall(t) == t

\* RayColor(ray, scene, lights, ray_color)
CallRayColor ==
    /\ shade.op = "none"
    /\ \E ray \in ShadeRays, scene \in ShadeScenes, lights \in LightLists :
          shade' = RayColorCall(ray, scene, lights, RayColor(ray, scene, lights))
    /\ tri' = TriangleAfterCall(tri)
    /\ UNCHANGED <<rec, call, cam, mat, prog, render, parse>>

\* light->Illuminate(hit_record, view_vec)
CallIlluminate ==
    /\ shade.op = "none"
    /\ \E light \in LightIds, r \in ShadeRecords, view_vec \in {<<0, 0, 1>>, <<0, 0, -1>>} :
          shade' = IlluminateCall(light, r, view_vec, Illuminate(light, r, view_vec))
    /\ tri' = TriangleAfterCall(tri)
    /\ UNCHANGED <<rec, call, cam, mat, prog, render, parse>>

\* the caller takes the result
Return ==
    /\ shade.op # "none"
    /\ shade' = NoShade
    /\ UNCHANGED <<tri, rec, call, cam, mat, prog, render, parse>>

\* the scene is built before it is shaded: SetMaterial on each surface
InitShade ==
    /\ tri = TriangleNew(FlatCCW)
    /\ rec = EmptyRecord
    /\ call = NoCall
    /\ cam = NoCamera
    /\ mat \in {m \in [PrimitiveIds -> MaterialIds] :
                  \A id \in PrimitiveIds \ ShadedIds : m[id] = NULL}
    /\ shade = NoShade
    /\ prog = NoProgress
    /\ render = NoRender
    /\ parse = NoParse

NextShade == CallRayColor \/ CallIlluminate \/ Return

SpecShade == InitShade /\ [][NextShade]_vars

----------------------------------------------------------------------------
(* Properties of shading, checked under SpecShade *)

IsRayColor == shade.op = "RayColor"

RECURSIVE SumIlluminate(_, _, _)
\* the sum over the lights of light.Illuminate(hit_record, view_vec)
SumIlluminate(lights, hit_record, view_vec) ==
    IF lights = <<>> THEN Black
    ELSE ColourAdd(Illuminate(Head(lights), hit_record, view_vec).colour,
                   SumIlluminate(Tail(lights), hit_record, view_vec))

\* C6: for every ray that hits a surface whose material is a PhongMaterial,
\* whatever its name, RayColor returns the sum over all lights of
\* light.Illuminate(hitRecord, -ray.direction); the diagnostic colour is
\* returned only when the material is no PhongMaterial.
C6_PhongMaterialIsShaded ==
    (IsRayColor /\ shade.ret /\ shade.rec.surface # NULL) =>
        LET m == GetMaterial(shade.rec.surface)
        IN  /\ IsPhongMaterial(m) =>
                  shade.colour = SumIlluminate(shade.lights, shade.rec, Neg(shade.ray.dir))
            /\ shade.colour = DiagnosticColour => ~IsPhongMaterial(m)

\* the largest ray parameter at which an intersection is looked for
MaxRayT == 40

\* the ray meets the Sphere or Triangle id at parameter t (the triangle by its
\* current points)
Meets(id, ray, t) ==
    LET x == At(ray, t)
    IN  IF id \in SphereIds
        THEN Dot(Sub(x, Spheres[id].center), Sub(x, Spheres[id].center))
                = Spheres[id].radius * Spheres[id].radius
        ELSE LET p0 == TriangleOf(id).point0
                 p1 == TriangleOf(id).point1
                 p2 == TriangleOf(id).point2
                 n == Cross(Sub(p1, p0), Sub(p2, p0))
             IN  /\ Dot(n, Sub(x, p0)) = 0
                 /\ Dot(Cross(Sub(p1, p0), Sub(x, p0)), n) >= 0
                 /\ Dot(Cross(Sub(p2, p1), Sub(x, p1)), n) >= 0
                 /\ Dot(Cross(Sub(p0, p2), Sub(x, p2)), n) >= 0

\* no surface of the scene last shaded is met at a parameter t >= kEpsilon
NothingMetFromEpsilon ==
    \A id \in PrimitivesOf(shade.scene), t \in kEpsilon..MaxRayT :
        ~Meets(id, shade.ray, t)

\* C7: when no surface is intersected at a parameter t >= epsilon, also when
\* the only intersections lie at t < epsilon, RayColor gives black whatever
\* the lights, and evaluates no light.
C7_MissIsBlack ==
    (IsRayColor /\ NothingMetFromEpsilon) =>
        /\ ~shade.ret
        /\ shade.colour = Black
        /\ shade.evaluated = 0

\* C7, its case: the ray starts on a surface of the scene (an intersection at
\* t = 0 < epsilon) and meets nothing further on, there are lights, and the
\* colour is black
C7_OnlyHitBelowEpsilon ==
    /\ IsRayColor
    /\ shade.lights # <<>>
    /\ \E id \in PrimitivesOf(shade.scene) : Meets(id, shade.ray, 0)
    /\ NothingMetFromEpsilon
    /\ shade.colour = Black

\* C8: a missing or non-Phong material is never a failure.  Illuminate of a
\* PointLight or an AmbientLight returns black when the record has no surface
\* or its surface has no PhongMaterial; RayColor returns the diagnostic colour
\* (1,0,0) for every hit whose surface has no PhongMaterial; no null surface or
\* material is dereferenced.
C8_MissingMaterialIsNoFailure ==
    /\ shade.op = "Illuminate" =>
          /\ ~shade.fault
          /\ (shade.rec.surface = NULL \/ ~IsPhongMaterial(GetMaterial(shade.rec.surface)))
                => shade.colour = Black
    /\ IsRayColor =>
          /\ ~shade.fault
          /\ (shade.ret /\ ~IsPhongMaterial(GetMaterial(shade.rec.surface)))
                => shade.colour = DiagnosticColour

\* C8, its case: an AmbientLight has been asked to illuminate a record that
\* has no surface, and returned black
C8_NoSurfaceSeen ==
    /\ shade.op = "Illuminate"
    /\ Lights[shade.light].class = "AmbientLight"
    /\ shade.rec.surface = NULL
    /\ shade.colour = Black

----------------------------------------------------------------------------
(* Further properties of the Surface variants, checked under Spec *)

\* C11: whenever Sphere.Hit returns false, for a negative discriminant or for
\* a smaller root outside [tmin, tmax], every field of the caller's hit record
\* (rayT, point, normal, surface) is as it was before the call.
C11_SphereMissLeavesRecord ==
    (IsSphereHit /\ ~call.ret) => rec = call.before

\* C11, its case: the ray meets the sphere, the smaller root is out of range,
\* Hit returned false, and the caller's record, which was not an empty one,
\* is as it was
C11_OutOfRangeMissSeen ==
    /\ IsSphereHit
    /\ ~call.ret
    /\ SphereRoots # {}
    /\ call.before # EmptyRecord
    /\ call.before.rayT # SetMin(SphereRoots)
    /\ rec = call.before

IsTriangleHit == IsHit /\ call.target \in TriangleIds

\* the sign of x
Sign(x) == IF x < 0 THEN -1 ELSE IF x > 0 THEN 1 ELSE 0

\* What the points of the triangle last called, the ray and the range decide:
\* with n = (p1 - p0) x (p2 - p0), u = p1 - p0, v = p2 - p0, the plane is met
\* at t = num / den, and x - p0 = beta u + gamma v at the hit point x.  All
\* comparisons are made on numerators, multiplied by the sign of the
\* denominator.
TriangleGeometry ==
    LET t == TriangleOf(call.target)
        u == Sub(t.point1, t.point0)
        v == Sub(t.point2, t.point0)
        n == Cross(u, v)
        den == Dot(n, call.ray.dir)
        num == Dot(n, Sub(t.point0, call.ray.origin))
        q == Add(Scale(den, Sub(call.ray.origin, t.point0)), Scale(num, call.ray.dir))
        sg == Sign(den)
        one == sg * den * Dot(n, n)
    IN  [perpendicular |-> den = 0,
         inRange |-> call.tmin * sg * den <= sg * num /\ sg * num <= call.tmax * sg * den,
         beta |-> sg * Dot(Cross(q, v), n),
         gamma |-> sg * Dot(Cross(u, q), n),
         one |-> one]

\* the barycentric test beta >= 0, gamma >= 0, beta + gamma <= 1
InsideTriangle(g) == g.beta >= 0 /\ g.gamma >= 0 /\ g.beta + g.gamma <= g.one

\* C12: Triangle.Hit returns false when the ray direction is perpendicular to
\* the face normal of its points; otherwise it returns true iff the plane
\* parameter t lies in [tmin, tmax] and the hit point passes the barycentric
\* test beta >= 0, gamma >= 0, beta + gamma <= 1, points on an edge or a
\* vertex included.
C12_TriangleHitIsBarycentric ==
    IsTriangleHit =>
        call.ret = (/\ ~TriangleGeometry.perpendicular
                    /\ TriangleGeometry.inRange
                    /\ InsideTriangle(TriangleGeometry))

\* C20: for every Surface variant, an empty or nested SurfaceList included, a
\* Hit call that returns false leaves every field of the caller's hit record,
\* rayT included, as it was on entry.
C20_MissLeavesRecord ==
    (IsHit /\ ~call.ret) => rec = call.before

----------------------------------------------------------------------------
(* Further properties of shading, checked under SpecShade *)

\* C17: AmbientLight.Illuminate depends only on the light's colour and the
\* ambient coefficient of the hit surface's Phong material: whatever the
\* rayT, point and normal of the record and whatever the view vector, it
\* returns the element-wise product of light colour and material ambient.
C17_AmbientIgnoresGeometry ==
    (/\ shade.op = "Illuminate"
     /\ Lights[shade.light].class = "AmbientLight"
     /\ shade.rec.surface # NULL
     /\ IsPhongMaterial(GetMaterial(shade.rec.surface)))
        => shade.colour = ColourMul(Lights[shade.light].ambient,
                                    Materials[GetMaterial(shade.rec.surface)].ambient)

----------------------------------------------------------------------------
(* The progress bar of the RayTracer.  prog holds progress_bar_ (bar: it is  *)
(* not null), progress_bar_done_pixels_ (done), progress_bar_total_pixels_  *)
(* (total), progress_bar_mutex_ (mutex: the thread that holds it, or none),  *)
(* and for each thread that calls RenderProgressIncDonePixels its position  *)
(* in the call (pc), the value it computed from the counter it read (tmp)   *)
(* and the number of calls it has completed (calls).                        *)

\* the number of threads
NumThreads == 3

\* the largest total_pixels
MaxTotal == 3

\* the largest number of RenderProgressIncDonePixels calls of one behaviour
MaxCalls == 4

Threads == 1..NumThreads

\* the value of mutex when no thread holds it
NoThread == 0

\* the sum of f over the threads 1..n
RECURSIVE SumTo(_, _)
SumTo(f, n) == IF n = 0 THEN 0 ELSE f[n] + SumTo(f, n - 1)

\* std::lock_guard on a mutex that any thread may enter, held or not
MutexAlwaysFree(mutex) == TRUE

\* std::lock_guard<std::mutex> lock(progress_bar_mutex_) can be entered
MutexFree(mutex) == mutex = NoThread

\* RenderProgressStart(total_pixels), as a whole
ProgressStart(total_pixels) ==
    [started |-> TRUE, bar |-> TRUE, done |-> 0, total |-> total_pixels,
     mutex |-> NoThread,
     pc |-> [t \in Threads |-> "idle"],
     tmp |-> [t \in Threads |-> 0],
     calls |-> [t \in Threads |-> 0]]

\* RenderProgressIncDonePixels(), as a whole, by a thread that finds the
\* mutex free
ProgressIncDonePixels(p) == [p EXCEPT !.done = Min2(@ + 1, p.total)]

\* RenderProgressEnd(), as a whole
ProgressEnd(p) == [p EXCEPT !.bar = FALSE]

\* RenderProgressStart(total_pixels)
RenderProgressStart ==
    /\ ~prog.started
    /\ \E total_pixels \in 1..MaxTotal : prog' = ProgressStart(total_pixels)
    /\ UNCHANGED <<tri, rec, call, cam, mat, shade, render, parse>>

\* RenderProgressIncDonePixels, line 246: thread t takes the mutex
IncLock(t) ==
    /\ prog.started
    /\ prog.pc[t] = "idle"
    /\ SumTo(prog.calls, NumThreads)
          + Cardinality({u \in Threads : prog.pc[u] # "idle"}) < MaxCalls
    /\ MutexFree(prog.mutex)
    /\ prog' = [prog EXCEPT !.mutex = t, !.pc[t] = "locked"]
    /\ UNCHANGED <<tri, rec, call, cam, mat, shade, render, parse>>

\* line 247, the right-hand side: thread t reads the counter
IncRead(t) ==
    /\ prog.started
    /\ prog.pc[t] = "locked"
    /\ prog' = [prog EXCEPT !.tmp[t] = Min2(prog.done + 1, prog.total), !.pc[t] = "read"]
    /\ UNCHANGED <<tri, rec, call, cam, mat, shade, render, parse>>

\* line 247, the assignment: thread t writes the counter
IncWrite(t) ==
    /\ prog.started
    /\ prog.pc[t] = "read"
    /\ prog' = [prog EXCEPT !.done = prog.tmp[t], !.pc[t] = "written"]
    /\ UNCHANGED <<tri, rec, call, cam, mat, shade, render, parse>>

\* lines 249-253: the bar is shown and the lock_guard releases the mutex
IncUnlock(t) ==
    /\ prog.started
    /\ prog.pc[t] = "written"
    /\ prog' = [prog EXCEPT !.mutex = NoThread, !.pc[t] = "idle", !.calls[t] = @ + 1]
    /\ UNCHANGED <<tri, rec, call, cam, mat, shade, render, parse>>

InitProgress ==
    /\ tri = TriangleNew(FlatCCW)
    /\ rec = EmptyRecord
    /\ call = NoCall
    /\ cam = NoCamera
    /\ mat = NoMaterials
    /\ shade = NoShade
    /\ prog = NoProgress
    /\ render = NoRender
    /\ parse = NoParse

NextProgress ==
    \/ RenderProgressStart
    \/ \E t \in Threads : IncLock(t)
    \/ \E t \in Threads : IncRead(t)
    \/ \E t \in Threads : IncWrite(t)
    \/ \E t \in Threads : IncUnlock(t)

SpecProgress == InitProgress /\ [][NextProgress]_vars

\* the calls of RenderProgressIncDonePixels completed so far
CallsDone == SumTo(prog.calls, NumThreads)

\* C13: the progress counter is read and written only by a thread that holds
\* the mutex, and no increment is lost: whenever no call is in progress, after
\* k completed calls of RenderProgressIncDonePixels since
\* RenderProgressStart(total) the counter equals min(k, total).
C13_NoIncrementLost ==
    prog.started =>
        /\ \A t \in Threads : prog.pc[t] # "idle" => prog.mutex = t
        /\ (\A t \in Threads : prog.pc[t] = "idle")
              => prog.done = Min2(CallsDone, prog.total)

\* C13, its case: several threads have completed calls, more calls than
\* total, and the counter stands at total
C13_ThreadsInterleavedSeen ==
    /\ prog.started
    /\ \A t \in Threads : prog.pc[t] = "idle"
    /\ Cardinality({t \in Threads : prog.calls[t] > 0}) >= 2
    /\ CallsDone > prog.total
    /\ prog.total >= 2
    /\ prog.done = prog.total

----------------------------------------------------------------------------
(* RayTracer::Render.  render holds the arguments (scene and camera: NULL   *)
(* or not; aspect is twice the aspect ratio of the camera), image_height_,  *)
(* the locals width and height, the loop variables y and x, the pixels of   *)
(* rendered_image_ assigned so far, in the order of assignment (visited),   *)
(* the position in the function (pc) and the value returned (ret).          *)

\* the largest image_height_
MaxHeight == 3

\* twice the aspect ratios camera->GetAspectRatio() returns
AspectHalves == {-2, 0, 1, 2, 4}

\* static_cast<int> of n / d for d > 0: the quotient truncated towards zero
Trunc(n, d) == IF n >= 0 THEN n \div d ELSE -((-n) \div d)

\* Render, line 100: static_cast<int>(aspect * height + 0.5f)
ImageWidth(aspectHalves, height) == Trunc(aspectHalves * height + 1, 2)

\* Render, line 121, as it would be with the last row left out
LoopRunningOffByOne(r) == r.y < r.height - 1

\* Render, line 121: y < rendered_image_.rows
LoopRunning(r) == r.y < r.height

\* Render, lines 91-113: the checks, the image and the start of the progress
\* bar.  The result is the render state and the progress bar.
RenderBegin(scene, camera, aspectHalves, image_height, p) ==
    LET r0 == [pc |-> "returned", scene |-> scene, camera |-> camera,
               aspect |-> aspectHalves, image_height |-> image_height, width |-> 0, height |-> 0,
               y |-> 0, x |-> 0, visited |-> <<>>, ret |-> FALSE]
    IN  IF scene = NULL \/ camera = NULL
        THEN [render |-> r0, prog |-> p]
        ELSE LET height == image_height
                 width == ImageWidth(aspectHalves, height)
                 r1 == [r0 EXCEPT !.width = width, !.height = height]
             IN  IF height <= 0 \/ width <= 0
                 THEN [render |-> r1, prog |-> p]
                 ELSE [render |-> [r1 EXCEPT !.pc = "pixel"],
                       prog |-> ProgressStart(width * height)]

\* Render, lines 122 and 121: x++, and y++ with x = 0 at the end of a row
RenderAdvance(r) ==
    IF r.x + 1 < r.width THEN [r EXCEPT !.x = @ + 1]
    ELSE [r EXCEPT !.x = 0, !.y = @ + 1]

\* Render(scene, lights, camera) is called
RenderCall ==
    /\ render.pc = "none"
    /\ \E scene \in {NULL, "scene"}, camera \in {NULL, "camera"},
          aspectHalves \in AspectHalves, image_height \in 0..MaxHeight :
          LET b == RenderBegin(scene, camera, aspectHalves, image_height, prog)
          IN  render' = b.render /\ prog' = b.prog
    /\ UNCHANGED <<tri, rec, call, cam, mat, shade, parse>>

\* lines 123-129: the pixel (y, x) is given the colour of its ray
RenderPixel ==
    /\ render.pc = "pixel"
    /\ LoopRunning(render)
    /\ render' = [render EXCEPT !.visited = Append(@, <<render.y, render.x>>),
                                !.pc = "inc"]
    /\ UNCHANGED <<tri, rec, call, cam, mat, shade, prog, parse>>

\* line 130 and the loop increments
RenderInc ==
    /\ render.pc = "inc"
    /\ prog' = ProgressIncDonePixels(prog)
    /\ render' = [RenderAdvance(render) EXCEPT !.pc = "pixel"]
    /\ UNCHANGED <<tri, rec, call, cam, mat, shade, parse>>

\* lines 135-143: the loops are over
RenderReturn ==
    /\ render.pc = "pixel"
    /\ ~LoopRunning(render)
    /\ prog' = ProgressEnd(prog)
    /\ render' = [render EXCEPT !.pc = "returned", !.ret = TRUE]
    /\ UNCHANGED <<tri, rec, call, cam, mat, shade, parse>>

InitRender ==
    /\ tri = TriangleNew(FlatCCW)
    /\ rec = EmptyRecord
    /\ call = NoCall
    /\ cam = NoCamera
    /\ mat = NoMaterials
    /\ shade = NoShade
    /\ prog = NoProgress
    /\ render = NoRender
    /\ parse = NoParse

NextRender == RenderCall \/ RenderPixel \/ RenderInc \/ RenderReturn

SpecRender == InitRender /\ [][NextRender]_vars

\* a Render call that has begun is not suspended for ever
SpecRenderFair == SpecRender /\ WF_vars(NextRender)

\* the pixels (y, x) of a width x height image in row-major order
RowMajor(width, height) ==
    [i \in 1..(width * height) |-> <<(i - 1) \div width, (i - 1) % width>>]

\* the arguments of the Render call are a scene, a camera and an image height
\* that give positive image dimensions
RenderArgumentsValid ==
    /\ render.scene # NULL
    /\ render.camera # NULL
    /\ render.image_height > 0
    /\ ImageWidth(render.aspect, render.image_height) > 0

\* C19: Render with a non-null scene and camera and positive image dimensions
\* terminates and returns true after assigning every pixel of the width x
\* height image exactly once in row-major order, incrementing the progress
\* counter once per pixel, so that at the end the counter is width * height;
\* with a null scene or camera or a non-positive width or height it returns
\* false and assigns no pixel.
C19_RenderVisitsEveryPixelOnce ==
    /\ [](render.pc = "returned" =>
            IF RenderArgumentsValid
            THEN /\ render.ret
                 /\ render.visited = RowMajor(render.width, render.height)
                 /\ prog.done = render.width * render.height
            ELSE ~render.ret /\ render.visited = <<>>)
    /\ [](render.pc = "pixel" => prog.done = Len(render.visited))
    /\ [](render.pc = "inc" => prog.done = Len(render.visited) - 1)
    /\ (render.pc # "none") ~> (render.pc = "returned")

\* C19, its case: Render has returned true for an image of several rows and
\* several columns
C19_ImageRenderedSeen ==
    /\ render.pc = "returned"
    /\ render.ret
    /\ render.width >= 2
    /\ render.height >= 2
    /\ Len(render.visited) = render.width * render.height

----------------------------------------------------------------------------
(* RaytraParser::ParseFile.  The file is read one line per step; a line is  *)
(* the record of its command character and of the numbers that follow it.  *)
(* A PhongMaterial object is its index in parse.materials, the order of     *)
(* allocation, and the null pointer is NoMaterial.                          *)

\* the number of lines of the longest file
MaxLines == 5

\* PhongMaterial::Ptr current_material = NULL
NoMaterial == 0

\* the view vectors of the camera lines: along the default up vector in both
\* senses, and across it
Views == {<<0, 2, 0>>, <<0, -1, 0>>, <<0, 0, -1>>, <<3, 0, 4>>}

\* the viewport_width and viewport_height of the camera lines
Viewports == {<<4, 2>>, <<0, 2>>, <<2, 0>>}

SphereLines == {[cmd |-> "s", center |-> <<0, 0, -4>>, radius |-> 1]}

TriangleLines == {[cmd |-> "t", points |-> FlatCCW]}

CameraLines ==
    {[cmd |-> "c", eye |-> ZeroVec, view |-> v, focal_length |-> 1,
      viewport |-> vp, pixels |-> <<4, 2>>] : v \in Views, vp \in Viewports}

\* "l a", "l p", and an l line of another type
LightLines ==
    {[cmd |-> "l", type |-> "a", colour |-> Colour(1, 1, 1)],
     [cmd |-> "l", type |-> "p", position |-> <<0, 4, 0>>, colour |-> Colour(1, 1, 1)],
     [cmd |-> "l", type |-> "x"]}

MaterialLines ==
    {[cmd |-> "m", diffuse |-> d, specular |-> Colour(1, 0, 1), r |-> 2] :
        d \in {Colour(1, 1, 1), Colour(1, 2, 0)}}

\* comments, empty lines and lines of an unknown command
OtherLines == {[cmd |-> "/"], [cmd |-> ""], [cmd |-> "x"]}

\* a.isApprox(b) on vectors of the model, whose distance is 0 or far above the
\* precision of Eigen
IsApprox(a, b) == a = b

\* 2 * atan2(viewport_height * 0.5, focal_length) * kRADtoDEG, in degrees, for
\* the lines of the model
Fovy(viewport_height, focal_length) ==
    CASE viewport_height = 0 -> 0
      [] viewport_height = 2 * focal_length -> 90

\* isfinite(viewport_width / viewport_height)
IsFinite(viewport) == viewport[2] # 0

\* ParseFile up to the loop: the file is missing or cannot be opened, or the
\* locals are initialised.  The outputs hold what the caller passed.
ParseBegin(readable) ==
    [pc |-> IF readable THEN "loop" ELSE "returned", ret |-> FALSE,
     lines |-> <<>>,
     camera_count |-> 0, surface_count |-> 0, ambient_light_count |-> 0,
     current_material |-> NoMaterial, materials |-> <<>>, surface_list |-> <<>>,
     scene |-> <<>>, scene_set |-> FALSE, lights |-> <<>>,
     camera |-> [constructed |-> FALSE], image_size |-> <<0, 0>>]

\* return false
ReturnFalse(p) == [p EXCEPT !.pc = "returned", !.ret = FALSE]

\* case 's' and case 't'
SurfaceLine(p, l) ==
    LET q == [p EXCEPT !.lines = Append(@, l)]
    IN  IF p.current_material = NoMaterial
        THEN ReturnFalse(q)
        ELSE [q EXCEPT !.surface_list =
                           Append(@, [class |-> IF l.cmd = "s" THEN "Sphere" ELSE "Triangle",
                                      line |-> l, material |-> p.current_material]),
                       !.surface_count = @ + 1]

\* the up vector of case 'c'
UpVec(view_vec) ==
    IF IsApprox(view_vec, Normalized(<<0, 1, 0>>)) THEN <<0, 0, 1>> ELSE <<0, 1, 0>>

\* case 'c'; target = eye + view_vec is kept as the pair of its terms
CameraLine(p, l) ==
    LET q == [p EXCEPT !.lines = Append(@, l)]
        view_vec == Normalized(l.view)
    IN  IF ~IsFinite(l.viewport) \/ l.viewport[1] * l.viewport[2] <= 0
        THEN ReturnFalse(q)
        ELSE [q EXCEPT !.camera = [constructed |-> TRUE, eye |-> l.eye,
                                   target |-> [eye |-> l.eye, view_vec |-> view_vec],
                                   up |-> UpVec(view_vec),
                                   fovy |-> Fovy(l.viewport[2], l.focal_length),
                                   aspect |-> Q(l.viewport[1], l.viewport[2])],
                       !.image_size = l.pixels,
                       !.camera_count = @ + 1]

\* case 'l'
LightLine(p, l) ==
    LET q == [p EXCEPT !.lines = Append(@, l)]
    IN  CASE l.type = "a" ->
                [q EXCEPT !.lights = Append(@, [class |-> "AmbientLight",
                                                ambient |-> l.colour]),
                          !.ambient_light_count = @ + 1]
          [] l.type = "p" ->
                [q EXCEPT !.lights = Append(@, [class |-> "PointLight",
                                                position |-> l.position,
                                                intensity |-> l.colour])]
          [] OTHER -> q

\* case 'm', overwriting the material object that is current
MaterialLineInPlace(p, l) ==
    LET q == [p EXCEPT !.lines = Append(@, l)]
        material == PhongMaterialNew(l.diffuse, l.diffuse, l.specular, l.r, Black, "")
    IN  IF p.current_material = NoMaterial
        THEN [q EXCEPT !.materials = Append(@, material),
                       !.current_material = Len(p.materials) + 1]
        ELSE [q EXCEPT !.materials[p.current_material] = material]

\* case 'm': current_material = PhongMaterial::Create(diffuse, diffuse,
\* specular, r), a new object
MaterialLine(p, l) ==
    LET q == [p EXCEPT !.lines = Append(@, l)]
        material == PhongMaterialNew(l.diffuse, l.diffuse, l.specular, l.r, Black, "")
    IN  [q EXCEPT !.materials = Append(@, material),
                  !.current_material = Len(p.materials) + 1]

\* comments, empty lines and the default case
SkipLine(p, l) == [p EXCEPT !.lines = Append(@, l)]

\* the end of ParseFile, without the test of camera_count
ParseFinishAnyCameras(p) ==
    IF p.ambient_light_count > 1
    THEN ReturnFalse(p)
    ELSE [p EXCEPT !.scene = p.surface_list, !.scene_set = TRUE,
                   !.pc = "returned", !.ret = TRUE]

\* the end of ParseFile, after the last line
ParseFinish(p) ==
    IF p.ambient_light_count > 1
    THEN ReturnFalse(p)
    ELSE IF p.camera_count # 1
    THEN ReturnFalse(p)
    ELSE [p EXCEPT !.scene = p.surface_list, !.scene_set = TRUE,
                   !.pc = "returned", !.ret = TRUE]

Reading == parse.pc = "loop" /\ Len(parse.lines) < MaxLines

ParseFileCall ==
    /\ parse.pc = "none"
    /\ \E readable \in BOOLEAN : parse' = ParseBegin(readable)
    /\ UNCHANGED <<tri, rec, call, cam, mat, shade, prog, render>>

ParseSurfaceLine ==
    /\ Reading
    /\ \E l \in SphereLines \cup TriangleLines : parse' = SurfaceLine(parse, l)
    /\ UNCHANGED <<tri, rec, call, cam, mat, shade, prog, render>>

ParseCameraLine ==
    /\ Reading
    /\ \E l \in CameraLines : parse' = CameraLine(parse, l)
    /\ UNCHANGED <<tri, rec, call, cam, mat, shade, prog, render>>

ParseLightLine ==
    /\ Reading
    /\ \E l \in LightLines : parse' = LightLine(parse, l)
    /\ UNCHANGED <<tri, rec, call, cam, mat, shade, prog, render>>

ParseMaterialLine ==
    /\ Reading
    /\ \E l \in MaterialLines : parse' = MaterialLine(parse, l)
    /\ UNCHANGED <<tri, rec, call, cam, mat, shade, prog, render>>

ParseOtherLine ==
    /\ Reading
    /\ \E l \in OtherLines : parse' = SkipLine(parse, l)
    /\ UNCHANGED <<tri, rec, call, cam, mat, shade, prog, render>>

\* getline fails: the file has no further line
ParseEndOfFile ==
    /\ parse.pc = "loop"
    /\ parse' = ParseFinish(parse)
    /\ UNCHANGED <<tri, rec, call, cam, mat, shade, prog, render>>

InitParse ==
    /\ tri = TriangleNew(FlatCCW)
    /\ rec = EmptyRecord
    /\ call = NoCall
    /\ cam = NoCamera
    /\ mat = NoMaterials
    /\ shade = NoShade
    /\ prog = NoProgress
    /\ render = NoRender
    /\ parse = NoParse

NextParse ==
    \/ ParseFileCall
    \/ ParseSurfaceLine
    \/ ParseCameraLine
    \/ ParseLightLine
    \/ ParseMaterialLine
    \/ ParseOtherLine
    \/ ParseEndOfFile

SpecParse == InitParse /\ [][NextParse]_vars

----------------------------------------------------------------------------
(* Properties of ParseFile *)

\* the camera lines of q
CameraLinesOf(q) == {j \in 1..Len(q) : q[j].cmd = "c"}

\* the ambient-light lines of q
AmbientLinesOf(q) == {j \in 1..Len(q) : q[j].cmd = "l" /\ q[j].type = "a"}

ParseReturned == parse.pc = "returned"

\* C15: ParseFile returns true only for a file with exactly one camera line and
\* at most one ambient-light line (a file with no camera line, with several, or
\* with several ambient-light lines is refused), and then exactly one Camera
\* has been constructed.
C15_TrueOnlyWithOneCamera ==
    (ParseReturned /\ parse.ret) =>
        /\ Cardinality(CameraLinesOf(parse.lines)) = 1
        /\ Cardinality(AmbientLinesOf(parse.lines)) <= 1
        /\ parse.camera.constructed
        /\ parse.camera_count = 1

\* C15, its case: a file of four lines with one camera line and one
\* ambient-light line has been accepted
C15_OneCameraAcceptedSeen ==
    /\ ParseReturned /\ parse.ret
    /\ Len(parse.lines) = MaxLines
    /\ Cardinality(CameraLinesOf(parse.lines)) = 1
    /\ Cardinality(AmbientLinesOf(parse.lines)) = 1

\* C16: no Camera is constructed by ParseFile with an up vector parallel to the
\* view vector of its line, in the same or in the opposite sense.
C16_UpNeverParallelToView ==
    (parse.pc # "none" /\ parse.camera.constructed) =>
        Cross(parse.camera.up, parse.camera.target.view_vec.v) # ZeroVec

\* the material lines among the first i lines of q
MaterialLinesBefore(q, i) == {j \in 1..i : q[j].cmd = "m"}

\* the surface lines of q, in order
SurfaceLinesOf(q) == {j \in 1..Len(q) : q[j].cmd \in {"s", "t"}}

\* the index in q of the k-th surface line
SurfaceLineAt(q, k) ==
    CHOOSE j \in SurfaceLinesOf(q) :
        Cardinality({i \in SurfaceLinesOf(q) : i <= j}) = k

\* the material declared by line l
DeclaredBy(l) == PhongMaterialNew(l.diffuse, l.diffuse, l.specular, l.r, Black, "")

\* C18: every surface parsed carries the material declared by the most recent
\* material line before it, whatever material lines follow; a surface line with
\* no material line before it makes ParseFile return false; every surface of a
\* scene returned with true carries a material.
C18_SurfaceTakesLatestMaterial ==
    parse.pc \in {"loop", "returned"} =>
        /\ \A k \in 1..Len(parse.surface_list) :
              LET j == SurfaceLineAt(parse.lines, k)
                  ms == MaterialLinesBefore(parse.lines, j)
              IN  /\ ms # {}
                  /\ parse.surface_list[k].material # NoMaterial
                  /\ parse.materials[parse.surface_list[k].material]
                        = DeclaredBy(parse.lines[SetMax(ms)])
        /\ \A j \in SurfaceLinesOf(parse.lines) :
              MaterialLinesBefore(parse.lines, j) = {}
                  => (ParseReturned /\ ~parse.ret /\ j = Len(parse.lines))
        /\ (ParseReturned /\ parse.ret) =>
              /\ parse.scene = parse.surface_list
              /\ Len(parse.scene) = Cardinality(SurfaceLinesOf(parse.lines))

\* C18, its case: a file with a material line, a surface, a different material
\* line and a second surface has been accepted
C18_TwoMaterialsSeen ==
    /\ ParseReturned /\ parse.ret
    /\ Len(parse.scene) = 2
    /\ parse.scene[1].material # parse.scene[2].material
    /\ parse.materials[parse.scene[1].material]
          # parse.materials[parse.scene[2].material]

\* the output parameters of ParseFile in state p
Outputs(p) ==
    [scene |-> p.scene, scene_set |-> p.scene_set, lights |-> p.lights,
     camera |-> p.camera, image_size |-> p.image_size]

\* C21: when ParseFile returns false, the output parameters scene, lights,
\* camera and image_size hold what they held on entry.
C21_FalseLeavesOutputs ==
    (ParseReturned /\ ~parse.ret) => Outputs(parse) = Outputs(ParseBegin(TRUE))

====
